---- MODULE Spec2Model ----
(***************************************************************************)
(* Model of openstack_s3_transfer.py: main's run over a Swift container,   *)
(* the thread pool of transfer_object workers, upload_file_with_retry and  *)
(* the staging directory the workers share.                                *)
(***************************************************************************)
EXTENDS Integers, Sequences, FiniteSets, TLC

(***************************************************************************)
(* Bounds of the model.                                                    *)
(***************************************************************************)
\* largest --maxWorkers value explored
MaxWorkers == 2
\* most ExpiredToken failures one upload_file_with_retry call meets
MaxRefresh == 2
\* largest `retries` argument explored for upload_file_with_retry alone
MaxRetries == 3
MaxPage == 2

\* retries = 3 in main
DefaultRetries == 3

(***************************************************************************)
(* Object keys are sequences of characters; "/" is the path separator.     *)
(* AllKeys is the container in the order Swift lists it (by name).         *)
(***************************************************************************)
KeyA == <<"a">>
KeyAB == <<"a", "/", "b">>
KeyADir == <<"a", "/">>
KeyB == <<"b">>
AllKeys == <<KeyA, KeyADir, KeyAB, KeyB>>
Keys == {AllKeys[n] : n \in 1..Len(AllKeys)}
NKeys == Len(AllKeys)

\* the keys whose staging paths lie on one branch below the staging root
NestedKeys == {KeyA, KeyADir, KeyAB}
TaskIds == 1..NKeys

\* objectName.endswith("/")
EndsWithSlash(k) == Len(k) > 0 /\ k[Len(k)] = "/"

\* the zero-byte body; the other bodies are "x", "y" and "z"
Empty == ""

\* the body the source store holds for a regular key
SrcBody(k) == IF k \in {KeyA, KeyB} THEN "x" ELSE IF k = KeyAB THEN "y" ELSE Empty

\* hashlib.md5(...).hexdigest(), shortened to the first two hex digits
HexDigest(b) ==
    IF b = "x" THEN <<"9", "d">>
    ELSE IF b = "y" THEN <<"4", "1">>
    ELSE IF b = "z" THEN <<"f", "b">>
    ELSE <<"d", "4">>

\* calculate_md5(filePath): digest of the bytes of the staged file
calculate_md5(b) == HexDigest(b)

Quote == "\""

\* the ETag S3 reports for a single-part object: the quoted hex digest
ETagOf(b) == <<Quote>> \o HexDigest(b) \o <<Quote>>

\* the ETag S3 reports for a multipart object: digest-of-digests, "-", parts
MultipartETagOf(b) == <<Quote>> \o HexDigest(b) \o <<"-", "2">> \o <<Quote>>

RECURSIVE LStrip(_, _)
LStrip(s, ch) == IF Len(s) > 0 /\ Head(s) = ch THEN LStrip(Tail(s), ch) ELSE s

RECURSIVE RStrip(_, _)
RStrip(s, ch) ==
    IF Len(s) > 0 /\ s[Len(s)] = ch THEN RStrip(SubSeq(s, 1, Len(s) - 1), ch) ELSE s

\* str.strip(ch)
Strip(s, ch) == RStrip(LStrip(s, ch), ch)

NoObj == [etag |-> <<>>, body |-> "none"]
S3Object(b) == [etag |-> ETagOf(b), body |-> b]
S3MultipartObject(b) == [etag |-> MultipartETagOf(b), body |-> b]

(***************************************************************************)
(* Staging paths, relative to tempDirectory.                               *)
(***************************************************************************)
\* positions of "/" in p
SlashAt(p) == {n \in 1..Len(p) : p[n] = "/"}

Max(S) == CHOOSE m \in S : \A n \in S : n <= m

\* os.path.dirname(os.path.join(tempDirectory, objectName)), below tempDirectory
Dirname(p) == IF SlashAt(p) = {} THEN <<>> ELSE SubSeq(p, 1, Max(SlashAt(p)) - 1)

\* d and the directories above it, below tempDirectory
DirChain(d) ==
    IF d = <<>> THEN {}
    ELSE {d} \cup {SubSeq(d, 1, n - 1) : n \in SlashAt(d)}

NoFile == "nofile"

\* what head_object answered: nothing yet, 404, another error, or an ETag
NotProbed == [kind |-> "none", etag |-> <<>>]
ProbeAbsent == [kind |-> "absent", etag |-> <<>>]
ProbeError == [kind |-> "error", etag |-> <<>>]
ProbeFound(e) == [kind |-> "found", etag |-> e]

VARIABLES
    mainPc,      \* where main is
    maxWorkers,  \* --maxWorkers
    retries,     \* the retries argument of upload_file_with_retry
    swift,       \* keys the source container holds
    objs,        \* openstack_objects: the listing main took
    submitted,   \* how many objects main has handed to the executor
    dest,        \* the bucket: key -> object or NoObj
    tempExists,  \* whether tempDirectory exists
    files,       \* staged files: path (a key) -> body or NoFile
    dirs,        \* directories below tempDirectory
    pc,          \* task -> state of its transfer_object call
    fault,       \* task -> what made it fail, "none" otherwise
    probeRes,    \* task -> what head_object answered
    localMD5,    \* task -> localMD5 of transfer_object
    attempt,     \* task -> attempt of upload_file_with_retry
    client,      \* task -> s3Client of upload_file_with_retry: 0 is main's
    upLog,       \* task -> the upload_file calls of the current retry call
    sleeps,      \* task -> the time.sleep calls of the current retry call
    upResult,    \* task -> what upload_file_with_retry returned
    calls,       \* task -> the calls transfer_object has made for its key
    s3Count,     \* len(s3_objects) of main's post-pass, -1 before
    report,      \* the count comparison main logged
    bucketExists,   \* whether the destination bucket exists
    abortWhy,       \* the call whose exception left main, "none" otherwise
    startupExpired, \* whether the session token of main's s3Client has expired
    errorLogged,    \* task -> whether a logger.error naming its key was emitted
    run,            \* 1 in the first run of main, 2 in the run after it
    firstOutcome,   \* task -> the state its transfer_object ended in, first run
    lsKind,         \* the listing function under way: "swift", "s3" or "none"
    lsPc,           \* "request" inside the listing loop, "returned" after it
    lsObjects,      \* objects of the listing function
    lsMarker,       \* marker / continuationToken, <<>> for None
    lsRequests      \* pages the listing function has asked for

vars == <<mainPc, maxWorkers, retries, swift, objs, submitted, dest, tempExists,
          files, dirs, pc, fault, probeRes, localMD5, attempt, client, upLog,
          sleeps, upResult, calls, s3Count, report, bucketExists, abortWhy,
          startupExpired, errorLogged, run, firstOutcome, lsKind, lsPc,
          lsObjects, lsMarker, lsRequests>>

runVars == <<run, firstOutcome>>
listVars == <<lsKind, lsPc, lsObjects, lsMarker, lsRequests>>
mainVars == <<mainPc, maxWorkers, retries, swift, objs, submitted, s3Count, report,
              bucketExists, abortWhy, runVars, listVars>>
uploadVars == <<attempt, client, upLog, sleeps, upResult>>
stagingVars == <<tempExists, files, dirs>>

(***************************************************************************)
(* States of a transfer_object task.                                       *)
(***************************************************************************)
Terminal == {"UpToDate", "Uploaded", "MarkerCreated", "Failed"}
UploadingStates == {"Uploading", "Refreshing", "Sleeping", "UploadReturned"}
RunningStates ==
    {"Started", "PuttingMarker", "Downloading", "Checksumming", "Probing"}
        \cup UploadingStates

Running == {i \in TaskIds : pc[i] \in RunningStates}

\* the key of task i
KeyOf(i) == objs[i]

\* paths that are regular files below tempDirectory
FilePaths == {k \in Keys : files[k] # NoFile}

\* the listing Swift returns for a container: its objects by name
Listing(S) == SelectSeq(AllKeys, LAMBDA k : k \in S)

Pow2(n) == 2 ^ n

\* line 177: the client main builds at start-up; later clients count up from it
StartupClient == 0

\* a call through the client of task i's upload_file_with_retry cannot
\* succeed: the start-up client after its session token expired
ClientExpired(i) == client[i] = StartupClient /\ startupExpired

\* logger.error(f"... {objectName} ...")
LogError(i) == errorLogged' = [errorLogged EXCEPT ![i] = TRUE]

\* the upload_file calls of log that ended with outcome o
CountOf(log, o) == Cardinality({n \in 1..Len(log) : log[n].out = o})

(***************************************************************************)
(* ThreadPoolExecutor(max_workers=maxWorkers): a free worker thread takes  *)
(* the oldest queued work item.                                            *)
(***************************************************************************)
\* (mutation) a thread per work item, whatever max_workers is
WorkerFreeUnbounded == TRUE

WorkerFree == Cardinality(Running) < maxWorkers

PoolStart(i) ==
    /\ pc[i] = "Pending"
    /\ \A j \in TaskIds : j < i => pc[j] # "Pending"
    /\ WorkerFree
    /\ pc' = [pc EXCEPT ![i] = "Started"]
    /\ UNCHANGED <<mainVars, startupExpired, errorLogged, dest, stagingVars, fault, probeRes, localMD5,
                   uploadVars, calls>>

(***************************************************************************)
(* transfer_object                                                         *)
(***************************************************************************)
\* an exception leaves transfer_object: the future keeps it, nothing is cleaned
Raise(i, why) ==
    /\ pc' = [pc EXCEPT ![i] = "Failed"]
    /\ fault' = [fault EXCEPT ![i] = why]

\* os.makedirs(os.path.dirname(tempFilePath), exist_ok=True)
MakedirsOk(d) == DirChain(d) \cap FilePaths = {}

\* (mutation) no marker branch: every key is downloaded
AfterMakedirsNoMarker(k) == "Downloading"

\* line 136: a key ending with "/" is a directory marker
AfterMakedirs(k) == IF EndsWithSlash(k) THEN "PuttingMarker" ELSE "Downloading"

\* lines 132-136: the staging path, its directories, marker or content
Makedirs(i) ==
    /\ pc[i] = "Started"
    /\ LET k == KeyOf(i)
           d == Dirname(k)
       IN IF MakedirsOk(d)
          THEN /\ dirs' = dirs \cup DirChain(d)
               /\ tempExists' = TRUE
               /\ pc' = [pc EXCEPT ![i] = AfterMakedirs(k)]
               /\ UNCHANGED fault
          ELSE /\ Raise(i, "makedirs")
               /\ UNCHANGED <<dirs, tempExists>>
    /\ UNCHANGED <<mainVars, startupExpired, errorLogged, dest, files, probeRes, localMD5, uploadVars, calls>>

\* lines 137-139: s3Client.put_object(Bucket, Key) with no body
PutMarker(i) ==
    /\ pc[i] = "PuttingMarker"
    /\ calls' = [calls EXCEPT ![i] = @ \cup {"put_object"}]
    /\ \/ /\ ~startupExpired
          /\ dest' = [dest EXCEPT ![KeyOf(i)] = S3Object(Empty)]
          /\ pc' = [pc EXCEPT ![i] = "MarkerCreated"]
          /\ UNCHANGED fault
       \/ /\ Raise(i, "put_object")
          /\ UNCHANGED dest
    /\ UNCHANGED <<mainVars, startupExpired, errorLogged, stagingVars, probeRes, localMD5, uploadVars>>

\* open(tempFilePath, "wb") succeeds unless the path is a directory
CanWrite(k) == k \notin dirs

\* lines 141-144: get_object, then the content written to the staging path
Download(i) ==
    /\ pc[i] = "Downloading"
    /\ calls' = [calls EXCEPT ![i] = @ \cup {"get_object"}]
    /\ LET k == KeyOf(i)
       IN \/ /\ k \in swift
             /\ IF CanWrite(k)
                THEN /\ files' = [files EXCEPT ![k] = SrcBody(k)]
                     /\ pc' = [pc EXCEPT ![i] = "Checksumming"]
                     /\ UNCHANGED fault
                ELSE /\ Raise(i, "staging")
                     /\ UNCHANGED files
          \/ /\ Raise(i, "download")
             /\ UNCHANGED files
    /\ UNCHANGED <<mainVars, startupExpired, errorLogged, dest, tempExists, dirs, probeRes, localMD5, uploadVars>>

\* line 146: localMD5 = calculate_md5(tempFilePath)
Checksum(i) ==
    /\ pc[i] = "Checksumming"
    /\ calls' = [calls EXCEPT ![i] = @ \cup {"calculate_md5"}]
    /\ LET k == KeyOf(i)
       IN \/ /\ files[k] # NoFile
             /\ localMD5' = [localMD5 EXCEPT ![i] = calculate_md5(files[k])]
             /\ pc' = [pc EXCEPT ![i] = "Probing"]
             /\ UNCHANGED fault
          \/ /\ Raise(i, "checksum")
             /\ UNCHANGED localMD5
    /\ UNCHANGED <<mainVars, startupExpired, errorLogged, dest, stagingVars, probeRes, uploadVars>>

\* (mutation) the ETag compared with its quotes on
SameDigestNoStrip(local, etag) == local = etag

\* (mutation) the comparison of line 150 always agrees
SameDigestAlways(local, etag) == TRUE

\* line 149-150: the ETag without its quotes against the local digest
SameDigest(local, etag) == local = Strip(etag, Quote)

\* (mutation) the return of line 153 missing: the upload follows the skip
AfterProbeNoReturn(same) == "Uploading"

\* lines 150-155: skip and return when the digests agree, upload otherwise
AfterProbe(same) == IF same THEN "UpToDate" ELSE "Uploading"

\* lines 147-161: head_object and the decision.  A ClientError other than
\* 404 is logged at line 160 and raised again; line 156 catches ClientError
\* only, so any other exception of head_object leaves with no log
Probe(i) ==
    /\ pc[i] = "Probing"
    /\ calls' = [calls EXCEPT ![i] = @ \cup {"head_object"}]
    /\ LET k == KeyOf(i)
       IN \/ /\ ~startupExpired
             /\ dest[k] = NoObj
             /\ probeRes' = [probeRes EXCEPT ![i] = ProbeAbsent]
             /\ pc' = [pc EXCEPT ![i] = "Uploading"]
             /\ UNCHANGED <<files, fault, errorLogged>>
          \/ /\ ~startupExpired
             /\ dest[k] # NoObj
             /\ probeRes' = [probeRes EXCEPT ![i] = ProbeFound(dest[k].etag)]
             /\ pc' = [pc EXCEPT ![i] = AfterProbe(SameDigest(localMD5[i], dest[k].etag))]
             /\ files' = IF SameDigest(localMD5[i], dest[k].etag)
                         THEN [files EXCEPT ![k] = NoFile]
                         ELSE files
             /\ UNCHANGED <<fault, errorLogged>>
          \/ /\ probeRes' = [probeRes EXCEPT ![i] = ProbeError]
             /\ LogError(i)
             /\ Raise(i, "probe")
             /\ UNCHANGED files
          \/ /\ probeRes' = [probeRes EXCEPT ![i] = ProbeError]
             /\ Raise(i, "probe")
             /\ UNCHANGED <<files, errorLogged>>
    /\ UNCHANGED <<mainVars, startupExpired, dest, tempExists, dirs, localMD5,
                   uploadVars>>

(***************************************************************************)
(* upload_file_with_retry                                                  *)
(***************************************************************************)
\* one s3Client.upload_file call of line 118 and how it ended
Logged(i, o) ==
    /\ upLog' = [upLog EXCEPT ![i] = Append(@, [out |-> o, client |-> client[i]])]
    /\ calls' = [calls EXCEPT ![i] = @ \cup {"upload_file"}]

\* line 116: while attempt < retries
LoopContinues(a) == a < retries

\* (mutation) the upload sends an empty body
UploadedObjectEmpty(b) == S3Object(Empty)

\* what upload_file leaves at the key: the staged bytes, in a single part
UploadedObject(b) == S3Object(b)

\* lines 118-120: upload_file succeeded
UploadOk(i) ==
    /\ pc[i] = "Uploading"
    /\ ~ClientExpired(i)
    /\ Logged(i, "ok")
    /\ dest' = [dest EXCEPT ![KeyOf(i)] = UploadedObject(files[KeyOf(i)])]
    /\ upResult' = [upResult EXCEPT ![i] = "True"]
    /\ pc' = [pc EXCEPT ![i] = "UploadReturned"]
    /\ UNCHANGED <<mainVars, startupExpired, errorLogged, stagingVars, fault, probeRes, localMD5, attempt,
                   client, sleeps>>

\* (mutation) an expired token counted against the attempt budget
UploadExpiredCounted(i) ==
    /\ pc[i] = "Uploading"
    /\ CountOf(upLog[i], "expired") < MaxRefresh
    /\ Logged(i, "expired")
    /\ startupExpired' = (startupExpired \/ client[i] = StartupClient)
    /\ attempt' = [attempt EXCEPT ![i] = @ + 1]
    /\ pc' = [pc EXCEPT ![i] = "Refreshing"]
    /\ UNCHANGED <<mainVars, errorLogged, dest, stagingVars, fault, probeRes, localMD5,
                   client, sleeps, upResult>>

\* lines 121-123: ClientError with code ExpiredToken
UploadExpired(i) ==
    /\ pc[i] = "Uploading"
    /\ CountOf(upLog[i], "expired") < MaxRefresh
    /\ Logged(i, "expired")
    /\ startupExpired' = (startupExpired \/ client[i] = StartupClient)
    /\ pc' = [pc EXCEPT ![i] = "Refreshing"]
    /\ UNCHANGED <<mainVars, errorLogged, dest, stagingVars, fault, probeRes, localMD5, attempt,
                   client, sleeps, upResult>>

\* line 57: refresh_credentials returns a new client; past MaxRefresh of
\* them in one call the last identity stands for every later one
NewClient(c) == IF c < MaxRefresh THEN c + 1 ELSE c

\* lines 124-125: s3Client = refresh_credentials(...); continue.  An
\* exception of refresh_credentials (input() at the end of stdin raises
\* EOFError) is raised inside the except block of line 121 and leaves
\* upload_file_with_retry and transfer_object
Refresh(i) ==
    /\ pc[i] = "Refreshing"
    /\ \/ /\ client' = [client EXCEPT ![i] = NewClient(@)]
          /\ pc' = [pc EXCEPT ![i] = "Uploading"]
          /\ UNCHANGED <<fault, upResult>>
       \/ /\ upResult' = [upResult EXCEPT ![i] = "raised"]
          /\ Raise(i, "upload_exception")
          /\ UNCHANGED client
    /\ UNCHANGED <<mainVars, startupExpired, errorLogged, dest, stagingVars, probeRes,
                   localMD5, attempt, upLog, sleeps, calls>>

\* lines 121, 126-127: any other ClientError counts as an attempt
UploadClientError(i) ==
    /\ pc[i] = "Uploading"
    /\ Logged(i, "error")
    /\ attempt' = [attempt EXCEPT ![i] = @ + 1]
    /\ LogError(i)
    /\ pc' = [pc EXCEPT ![i] = "Sleeping"]
    /\ UNCHANGED <<mainVars, startupExpired, dest, stagingVars, fault, probeRes, localMD5, client,
                   sleeps, upResult>>

\* line 128, then the loop test of line 116 and the return of line 129
Sleep(i) ==
    /\ pc[i] = "Sleeping"
    /\ sleeps' = [sleeps EXCEPT ![i] = Append(@, Pow2(attempt[i]))]
    /\ IF LoopContinues(attempt[i])
       THEN /\ pc' = [pc EXCEPT ![i] = "Uploading"]
            /\ UNCHANGED upResult
       ELSE /\ upResult' = [upResult EXCEPT ![i] = "False"]
            /\ pc' = [pc EXCEPT ![i] = "UploadReturned"]
    /\ UNCHANGED <<mainVars, startupExpired, errorLogged, dest, stagingVars, fault, probeRes, localMD5, attempt,
                   client, upLog, calls>>

\* line 121 catches ClientError only: any other exception of upload_file leaves
\* upload_file_with_retry and transfer_object
UploadOtherException(i) ==
    /\ pc[i] = "Uploading"
    /\ Logged(i, "exception")
    /\ upResult' = [upResult EXCEPT ![i] = "raised"]
    /\ Raise(i, "upload_exception")
    /\ UNCHANGED <<mainVars, startupExpired, errorLogged, dest, stagingVars, probeRes, localMD5, attempt, client,
                   sleeps>>

\* lines 163-166: the result of the retry call, whose frame is gone, then
\* os.remove(tempFilePath)
Finish(i) ==
    /\ pc[i] = "UploadReturned"
    /\ files' = [files EXCEPT ![KeyOf(i)] = NoFile]
    /\ IF upResult[i] = "True"
       THEN /\ pc' = [pc EXCEPT ![i] = "Uploaded"]
            /\ UNCHANGED <<fault, errorLogged>>
       ELSE /\ LogError(i)
            /\ pc' = [pc EXCEPT ![i] = "Failed"]
            /\ fault' = [fault EXCEPT ![i] = "exhausted"]
    /\ attempt' = [attempt EXCEPT ![i] = 0]
    /\ client' = [client EXCEPT ![i] = 0]
    /\ upLog' = [upLog EXCEPT ![i] = <<>>]
    /\ sleeps' = [sleeps EXCEPT ![i] = <<>>]
    /\ UNCHANGED <<mainVars, startupExpired, dest, tempExists, dirs, probeRes, localMD5, upResult,
                   calls>>

(***************************************************************************)
(* main                                                                    *)
(***************************************************************************)
\* lines 169-174: create_temp_directory
CreateTemp ==
    /\ mainPc = "start"
    /\ tempExists' = TRUE
    /\ mainPc' = "ensure_bucket"
    /\ UNCHANGED <<abortWhy, bucketExists, runVars, listVars, startupExpired, errorLogged,
                   maxWorkers, retries, swift, objs, submitted, s3Count, report,
                   dest, files, dirs, pc, fault, probeRes, localMD5, uploadVars, calls>>

\* an exception leaves main
Abort(why) ==
    /\ mainPc' = "aborted"
    /\ abortWhy' = why

\* (mutation) ensure_bucket_exists logs the error and returns
EnsureBucketNoRaise ==
    /\ mainPc = "ensure_bucket"
    /\ mainPc' = "list_source"
    /\ UNCHANGED <<abortWhy, bucketExists, runVars, listVars, startupExpired, errorLogged,
                   maxWorkers, retries, swift, objs, submitted, s3Count, report,
                   dest, stagingVars, pc, fault, probeRes, localMD5, uploadVars, calls>>

\* lines 176-180: the clients and ensure_bucket_exists: head_bucket answers,
\* or 404 for a missing bucket, or another ClientError (which S3 may give
\* whether the bucket exists or not); both are raised
EnsureBucket ==
    /\ mainPc = "ensure_bucket"
    /\ \/ /\ bucketExists
          /\ mainPc' = "list_source"
          /\ UNCHANGED abortWhy
       \/ /\ ~bucketExists
          /\ Abort("bucket_missing")
       \/ Abort("bucket_access")
    /\ UNCHANGED <<bucketExists, runVars, listVars, startupExpired, errorLogged,
                   maxWorkers, retries, swift, objs, submitted, s3Count, report,
                   dest, stagingVars, pc, fault, probeRes, localMD5, uploadVars, calls>>

\* lines 182-187: the source listing, retries = 3, the early return
ListSource ==
    /\ mainPc = "list_source"
    /\ \/ /\ objs' = Listing(swift)
          /\ retries' = DefaultRetries
          /\ mainPc' = IF Listing(swift) = <<>> THEN "returned_empty" ELSE "submitting"
          /\ UNCHANGED abortWhy
       \/ /\ Abort("list_source")
          /\ UNCHANGED <<objs, retries>>
    /\ UNCHANGED <<bucketExists, runVars, listVars, startupExpired, errorLogged,
                   maxWorkers, swift, submitted, s3Count, report,
                   dest, stagingVars, pc, fault, probeRes, localMD5, uploadVars, calls>>

\* lines 190-191: executor.submit(transfer_object, obj, ...)
Submit ==
    /\ mainPc = "submitting"
    /\ submitted < Len(objs)
    /\ submitted' = submitted + 1
    /\ pc' = [pc EXCEPT ![submitted + 1] = "Pending"]
    /\ UNCHANGED <<bucketExists, abortWhy, runVars, listVars, startupExpired, errorLogged,
                   mainPc, maxWorkers, retries, swift, objs, s3Count, report,
                   dest, stagingVars, fault, probeRes, localMD5, uploadVars, calls>>

\* (mutation) the join waits until every work item has uploaded its object
DrainedWhenUploaded == \A i \in 1..Len(objs) : pc[i] = "Uploaded"

\* (mutation) shutdown(wait=False): main goes on while work items run
DrainedNoWait == TRUE

\* the executor's shutdown(wait=True): every work item has run to its end
Drained == \A i \in 1..Len(objs) : pc[i] \in Terminal

\* line 189: leaving the with block joins the pool
AwaitBatch ==
    /\ mainPc = "submitting"
    /\ submitted = Len(objs)
    /\ Drained
    /\ mainPc' = "remove_temp"
    /\ UNCHANGED <<abortWhy, bucketExists, runVars, listVars, startupExpired, errorLogged,
                   maxWorkers, retries, swift, objs, submitted, s3Count, report,
                   dest, stagingVars, pc, fault, probeRes, localMD5, uploadVars, calls>>

\* line 192: remove_temp_directory
RemoveTemp ==
    /\ mainPc = "remove_temp"
    /\ IF tempExists
       THEN /\ files' = [k \in Keys |-> NoFile]
            /\ dirs' = {}
            /\ tempExists' = FALSE
       ELSE UNCHANGED stagingVars
    /\ mainPc' = "list_dest"
    /\ UNCHANGED <<abortWhy, bucketExists, runVars, listVars, startupExpired, errorLogged,
                   maxWorkers, retries, swift, objs, submitted, s3Count, report,
                   dest, pc, fault, probeRes, localMD5, uploadVars, calls>>

\* (mutation) the refresh of a worker reaches the client main lists with
MainClientExpiredNever == FALSE

\* line 195 passes the s3Client of line 177: no refresh ever replaced it
MainClientExpired == startupExpired

\* line 195: list_s3_objects, which may raise
ListDest ==
    /\ mainPc = "list_dest"
    /\ \/ /\ ~MainClientExpired
          /\ s3Count' = Cardinality({k \in Keys : dest[k] # NoObj})
          /\ mainPc' = "compare"
          /\ UNCHANGED abortWhy
       \/ /\ MainClientExpired
          /\ Abort("expired_token")
          /\ UNCHANGED s3Count
       \/ /\ Abort("list_dest")
          /\ UNCHANGED s3Count
    /\ UNCHANGED <<bucketExists, runVars, listVars, startupExpired, errorLogged,
                   maxWorkers, retries, swift, objs, submitted, report,
                   dest, stagingVars, pc, fault, probeRes, localMD5, uploadVars, calls>>

\* lines 196-204: the count comparison
Compare ==
    /\ mainPc = "compare"
    /\ report' = IF Len(objs) = s3Count THEN "Matched" ELSE "Mismatched"
    /\ mainPc' = "done"
    /\ UNCHANGED <<abortWhy, bucketExists, runVars, listVars, startupExpired, errorLogged,
                   maxWorkers, retries, swift, objs, submitted, s3Count,
                   dest, stagingVars, pc, fault, probeRes, localMD5, uploadVars, calls>>

(***************************************************************************)
(* The run of main.                                                        *)
(***************************************************************************)
\* what the bucket may hold for a key before the run
DestChoices(k, S) ==
    IF k \notin S \/ EndsWithSlash(k) THEN {NoObj}
    ELSE {NoObj, S3Object(SrcBody(k)), S3Object("z"), S3MultipartObject(SrcBody(k))}

IdleTasks ==
    /\ pc = [i \in TaskIds |-> "Unsubmitted"]
    /\ fault = [i \in TaskIds |-> "none"]
    /\ probeRes = [i \in TaskIds |-> NotProbed]
    /\ localMD5 = [i \in TaskIds |-> <<>>]
    /\ attempt = [i \in TaskIds |-> 0]
    /\ client = [i \in TaskIds |-> 0]
    /\ upLog = [i \in TaskIds |-> <<>>]
    /\ sleeps = [i \in TaskIds |-> <<>>]
    /\ upResult = [i \in TaskIds |-> "none"]
    /\ calls = [i \in TaskIds |-> {}]
    /\ errorLogged = [i \in TaskIds |-> FALSE]

\* no listing function is followed page by page
NoListing ==
    /\ lsKind = "none"
    /\ lsPc = "returned"
    /\ lsObjects = <<>>
    /\ lsMarker = <<>>
    /\ lsRequests = 0

FirstRun ==
    /\ run = 1
    /\ firstOutcome = [i \in TaskIds |-> "none"]

\* main is called: the container is given, the bucket and the arguments vary
Start ==
    /\ mainPc = "start"
    /\ maxWorkers \in 1..MaxWorkers
    /\ retries = 0
    /\ objs = <<>>
    /\ submitted = 0
    /\ bucketExists \in BOOLEAN
    /\ dest \in {f \in [Keys -> {NoObj} \cup UNION {DestChoices(k, swift) : k \in Keys}] :
                    \A k \in Keys : f[k] \in IF bucketExists THEN DestChoices(k, swift)
                                             ELSE {NoObj}}
    /\ tempExists = FALSE
    /\ files = [k \in Keys |-> NoFile]
    /\ dirs = {}
    /\ IdleTasks
    /\ s3Count = -1
    /\ report = "none"
    /\ abortWhy = "none"
    /\ startupExpired = FALSE
    /\ FirstRun
    /\ NoListing

\* a container of keys on one branch
Init ==
    /\ swift \in SUBSET NestedKeys
    /\ Start

\* a container that holds "b" and at most one key of the branch of "a"
PairInit ==
    /\ swift \in {S \cup {KeyB} : S \in {T \in SUBSET NestedKeys : Cardinality(T) <= 1}}
    /\ Start

TaskNext(i) ==
    \/ PoolStart(i)
    \/ Makedirs(i)
    \/ PutMarker(i)
    \/ Download(i)
    \/ Checksum(i)
    \/ Probe(i)
    \/ UploadOk(i)
    \/ UploadExpired(i)
    \/ Refresh(i)
    \/ UploadClientError(i)
    \/ Sleep(i)
    \/ UploadOtherException(i)
    \/ Finish(i)

Next ==
    \/ CreateTemp
    \/ EnsureBucket
    \/ ListSource
    \/ Submit
    \/ AwaitBatch
    \/ RemoveTemp
    \/ ListDest
    \/ Compare
    \/ \E i \in TaskIds : TaskNext(i)

Spec == Init /\ [][Next]_vars

SpecPair == PairInit /\ [][Next]_vars

(***************************************************************************)
(* The run of main with no limit on the ExpiredToken answers one call of   *)
(* upload_file_with_retry can meet, under fair scheduling: main and every  *)
(* task take a step when they can, and every call returns, with any of its *)
(* results.  Past MaxRefresh the expiries of a call are no longer listed   *)
(* in upLog.                                                               *)
(***************************************************************************)
\* lines 121-123 once more: ExpiredToken after MaxRefresh of them
UploadExpiredAgain(i) ==
    /\ pc[i] = "Uploading"
    /\ CountOf(upLog[i], "expired") = MaxRefresh
    /\ startupExpired' = (startupExpired \/ client[i] = StartupClient)
    /\ pc' = [pc EXCEPT ![i] = "Refreshing"]
    /\ UNCHANGED <<mainVars, errorLogged, dest, stagingVars, fault, probeRes, localMD5,
                   uploadVars, calls>>

MainNext ==
    \/ CreateTemp
    \/ EnsureBucket
    \/ ListSource
    \/ Submit
    \/ AwaitBatch
    \/ RemoveTemp
    \/ ListDest
    \/ Compare

TaskLive(i) ==
    \/ TaskNext(i)
    \/ UploadExpiredAgain(i)

NextLive ==
    \/ Next
    \/ \E i \in TaskIds : UploadExpiredAgain(i)

Fairness ==
    /\ WF_vars(MainNext)
    /\ \A i \in TaskIds : WF_vars(TaskLive(i))

\* the runs of Init on a bucket that holds, for a key, nothing or the source
\* content: the probe finds the object absent or up to date
LiveInit ==
    /\ Init
    /\ \A k \in Keys : dest[k] \in {NoObj, S3Object(SrcBody(k))}

SpecLive == LiveInit /\ [][NextLive]_vars /\ Fairness

(***************************************************************************)
(* main run a second time: a new process, on the same container and on the *)
(* bucket as the first run left it.                                        *)
(***************************************************************************)
RunAgain ==
    /\ mainPc = "done"
    /\ run = 1
    /\ run' = 2
    /\ firstOutcome' = pc
    /\ mainPc' = "start"
    /\ retries' = 0
    /\ objs' = <<>>
    /\ submitted' = 0
    /\ pc' = [i \in TaskIds |-> "Unsubmitted"]
    /\ fault' = [i \in TaskIds |-> "none"]
    /\ probeRes' = [i \in TaskIds |-> NotProbed]
    /\ localMD5' = [i \in TaskIds |-> <<>>]
    /\ attempt' = [i \in TaskIds |-> 0]
    /\ client' = [i \in TaskIds |-> StartupClient]
    /\ upLog' = [i \in TaskIds |-> <<>>]
    /\ sleeps' = [i \in TaskIds |-> <<>>]
    /\ upResult' = [i \in TaskIds |-> "none"]
    /\ calls' = [i \in TaskIds |-> {}]
    /\ errorLogged' = [i \in TaskIds |-> FALSE]
    /\ s3Count' = -1
    /\ report' = "none"
    /\ startupExpired' = FALSE
    /\ UNCHANGED <<maxWorkers, swift, dest, bucketExists, abortWhy, stagingVars, listVars>>

NextTwice ==
    \/ Next
    \/ RunAgain

SpecTwice == Init /\ [][NextTwice]_vars

(***************************************************************************)
(* upload_file_with_retry alone: one call, entered at line 115 for key     *)
(* "a" with its staged file, for every retries in 1..MaxRetries.           *)
(***************************************************************************)
RetryInit ==
    /\ mainPc = "submitting"
    /\ maxWorkers = 1
    /\ retries \in 1..MaxRetries
    /\ swift = {KeyA}
    /\ objs = <<KeyA>>
    /\ submitted = 1
    /\ \E o \in {NoObj, S3Object("z"), S3MultipartObject("x")} :
          /\ dest = [k \in Keys |-> IF k = KeyA THEN o ELSE NoObj]
          /\ probeRes = [i \in TaskIds |->
                            IF i # 1 THEN NotProbed
                            ELSE IF o = NoObj THEN ProbeAbsent ELSE ProbeFound(o.etag)]
    /\ tempExists = TRUE
    /\ files = [k \in Keys |-> IF k = KeyA THEN SrcBody(KeyA) ELSE NoFile]
    /\ dirs = {}
    /\ pc = [i \in TaskIds |-> IF i = 1 THEN "Uploading" ELSE "Unsubmitted"]
    /\ fault = [i \in TaskIds |-> "none"]
    /\ localMD5 = [i \in TaskIds |-> IF i = 1 THEN calculate_md5(SrcBody(KeyA)) ELSE <<>>]
    /\ attempt = [i \in TaskIds |-> 0]
    /\ client = [i \in TaskIds |-> 0]
    /\ upLog = [i \in TaskIds |-> <<>>]
    /\ sleeps = [i \in TaskIds |-> <<>>]
    /\ upResult = [i \in TaskIds |-> "none"]
    /\ calls = [i \in TaskIds |->
                   IF i = 1 THEN {"get_object", "calculate_md5", "head_object"} ELSE {}]
    /\ s3Count = -1
    /\ report = "none"
    /\ bucketExists = TRUE
    /\ abortWhy = "none"
    /\ startupExpired = FALSE
    /\ errorLogged = [i \in TaskIds |-> FALSE]
    /\ FirstRun
    /\ NoListing

RetryNext ==
    \/ UploadOk(1)
    \/ UploadExpired(1)
    \/ Refresh(1)
    \/ UploadClientError(1)
    \/ Sleep(1)
    \/ UploadOtherException(1)

SpecRetry == RetryInit /\ [][RetryNext]_vars

(***************************************************************************)
(* list_openstack_objects and list_s3_objects page by page.  Each store    *)
(* answers a request with a page of 1..MaxPage of the objects that follow  *)
(* the marker or the continuation token, in the order of their names.      *)
(***************************************************************************)
\* the place of a key in the order of names
KeyIndex(k) == CHOOSE n \in 1..NKeys : AllKeys[n] = k

\* the objects of a store that follow marker m; None (<<>>) is before all
After(S, m) ==
    SelectSeq(Listing(S), LAMBDA k : m = <<>> \/ KeyIndex(k) > KeyIndex(m))

FirstN(seq, n) == SubSeq(seq, 1, IF n < Len(seq) THEN n ELSE Len(seq))

\* swiftConnection.get_container(containerName, marker=marker)[1]
get_container(marker, n) == FirstN(After(swift, marker), n)

\* the keys the bucket holds
S3Keys == {k \in Keys : dest[k] # NoObj}

\* s3Client.list_objects_v2(Bucket, ContinuationToken): the token S3 hands
\* out stands for the last key of the page it came with
list_objects_v2(token, n) ==
    LET rest == After(S3Keys, token)
        page == FirstN(rest, n)
    IN [Contents |-> page,
        IsTruncated |-> Len(rest) > n,
        NextContinuationToken |-> IF Len(rest) > n THEN page[Len(page)] ELSE <<>>]

\* (mutation) the marker taken from the first object of the page
NextMarkerFirst(page) == page[1]

\* line 87: marker = page[-1]["name"]
NextMarker(page) == page[Len(page)]

listFrame == <<mainPc, maxWorkers, retries, swift, objs, submitted, s3Count, report,
               bucketExists, abortWhy, runVars, lsKind, dest, stagingVars, pc, fault,
               probeRes, localMD5, uploadVars, calls, startupExpired, errorLogged>>

\* lines 81-87: one turn of the loop of list_openstack_objects
ListSwiftPage ==
    /\ lsKind = "swift"
    /\ lsPc = "request"
    /\ lsRequests' = lsRequests + 1
    /\ \E n \in 1..MaxPage :
          LET page == get_container(lsMarker, n)
          IN IF page = <<>>
             THEN /\ lsPc' = "returned"
                  /\ UNCHANGED <<lsObjects, lsMarker>>
             ELSE /\ lsObjects' = lsObjects \o page
                  /\ lsMarker' = NextMarker(page)
                  /\ UNCHANGED lsPc
    /\ UNCHANGED listFrame

\* lines 93-103: one turn of the loop of list_s3_objects
ListS3Page ==
    /\ lsKind = "s3"
    /\ lsPc = "request"
    /\ lsRequests' = lsRequests + 1
    /\ \E n \in 1..MaxPage :
          LET response == IF lsMarker # <<>>
                          THEN list_objects_v2(lsMarker, n)
                          ELSE list_objects_v2(<<>>, n)
          IN /\ lsObjects' = IF response.Contents # <<>>
                             THEN lsObjects \o response.Contents
                             ELSE lsObjects
             /\ IF response.IsTruncated
                THEN /\ lsMarker' = response.NextContinuationToken
                     /\ UNCHANGED lsPc
                ELSE /\ lsPc' = "returned"
                     /\ UNCHANGED lsMarker
    /\ UNCHANGED listFrame

\* either listing function is called on a store of any content
ListInit ==
    /\ lsKind \in {"swift", "s3"}
    /\ lsPc = "request"
    /\ lsObjects = <<>>
    /\ lsMarker = <<>>
    /\ lsRequests = 0
    /\ mainPc = IF lsKind = "swift" THEN "list_source" ELSE "list_dest"
    /\ maxWorkers = 1
    /\ retries = 0
    /\ swift \in IF lsKind = "swift" THEN SUBSET Keys ELSE {{}}
    /\ objs = <<>>
    /\ submitted = 0
    /\ bucketExists = TRUE
    /\ dest \in IF lsKind = "s3" THEN [Keys -> {NoObj, S3Object("z")}]
                ELSE {[k \in Keys |-> NoObj]}
    /\ tempExists = TRUE
    /\ files = [k \in Keys |-> NoFile]
    /\ dirs = {}
    /\ IdleTasks
    /\ s3Count = -1
    /\ report = "none"
    /\ abortWhy = "none"
    /\ startupExpired = FALSE
    /\ FirstRun

ListNext ==
    \/ ListSwiftPage
    \/ ListS3Page

SpecList == ListInit /\ [][ListNext]_vars

(***************************************************************************)
(* Properties.                                                             *)
(***************************************************************************)
\* the tasks of the listing
Listed == 1..Len(objs)

\* main is past the with block of line 189
PostBatch == {"remove_temp", "list_dest", "compare", "done"}

\* the faults that are failures of a task's own store or checksum calls
StoreFaults ==
    {"download", "checksum", "probe", "exhausted", "upload_exception", "put_object"}

\* the permanent failures of a worker: download, metadata probe, upload exhaustion
PermanentFaults == {"download", "probe", "exhausted"}

\* the bucket has no entry for the key of b, or one with another digest
DestDiffers(b) ==
    LET k == KeyOf(b)
    IN IF probeRes[b].kind = "found"
       THEN localMD5[b] # Strip(probeRes[b].etag, Quote)
       ELSE IF probeRes[b].kind = "absent"
       THEN TRUE
       ELSE dest[k] = NoObj \/ calculate_md5(SrcBody(k)) # Strip(dest[k].etag, Quote)

\* upload_file_with_retry of task i has returned or raised
CallEnded(i) ==
    \/ pc[i] = "UploadReturned"
    \/ pc[i] = "Failed" /\ fault[i] = "upload_exception"

\* refresh_credentials raised in the call of task i
RefreshRaised(i) ==
    /\ pc[i] = "Failed"
    /\ fault[i] = "upload_exception"
    /\ upLog[i] # <<>>
    /\ upLog[i][Len(upLog[i])].out = "expired"

\* the failed upload_file calls of log that were not ExpiredToken
OtherFailures(log) == CountOf(log, "error") + CountOf(log, "exception")

\* C1: once the worker of a regular key is in a terminal state, no staged file
\* of that key exists under the staging root, whatever failed.
C1_Original ==
    \A i \in Listed :
        (~EndsWithSlash(KeyOf(i)) /\ pc[i] \in Terminal) => files[KeyOf(i)] = NoFile

\* C2: when the batch is over, for distinct objects A and B: if A ended in a
\* permanent failure, none of B's own download, probe and upload calls failed
\* and B was absent or different in the bucket, then B ended Uploaded. Stated
\* for the pool of one worker, where the tasks run one after another and B can
\* meet nothing of a sibling that is still running.
C2_Original ==
    (mainPc \in PostBatch /\ maxWorkers = 1) =>
        \A a, b \in Listed :
            ( /\ a # b
              /\ pc[a] = "Failed"
              /\ fault[a] \in PermanentFaults
              /\ ~EndsWithSlash(KeyOf(b))
              /\ fault[b] \notin StoreFaults
              /\ DestDiffers(b) )
            => pc[b] = "Uploaded"

\* C3: while main removes the staging root, re-lists the bucket or compares
\* the counts, no task is queued or running: every submitted task is terminal.
C3_PostPassAfterDrain ==
    mainPc \in PostBatch =>
        /\ submitted = Len(objs)
        /\ \A i \in TaskIds : pc[i] \notin RunningStates \cup {"Pending"}

C3_Witness ==
    /\ mainPc = "list_dest"
    /\ Len(objs) = Cardinality(NestedKeys)
    /\ \E i, j \in Listed : pc[i] = "Uploaded" /\ pc[j] = "Failed"

\* C4: the tasks that have started and not ended never outnumber maxWorkers.
C4_PoolBound == Cardinality(Running) <= maxWorkers

C4_Witness ==
    /\ Cardinality(Running) = maxWorkers
    /\ \E i, j \in Listed : pc[i] = "Sleeping" /\ pc[j] = "Pending"

\* C5: a call all of whose upload attempts failed, none by an expired token,
\* has made exactly `retries` attempts and returned False, without raising.
C5_Original ==
    \A i \in TaskIds :
        ( /\ CallEnded(i)
          /\ \A n \in 1..Len(upLog[i]) : upLog[i][n].out \in {"error", "exception"} )
        => upResult[i] = "False" /\ Len(upLog[i]) = retries

\* C6: against an uploader that fails k < retries times, never by an expired
\* token, and then succeeds, the call ends only by returning True after k+1
\* attempts and the k sleeps 2^1 .. 2^k.
C6_Original ==
    \A i \in TaskIds :
        ( /\ CallEnded(i)
          /\ CountOf(upLog[i], "expired") = 0
          /\ OtherFailures(upLog[i]) < retries )
        => LET k == OtherFailures(upLog[i])
           IN /\ upResult[i] = "True"
              /\ Len(upLog[i]) = k + 1
              /\ sleeps[i] = [n \in 1..k |-> 2 ^ n]

\* C7: an ExpiredToken failure is followed by a refresh and a new attempt
\* with the refreshed client: no call ends on an upload attempt that was
\* answered with an expired token.
C7_Original ==
    \A i \in TaskIds :
        (CallEnded(i) /\ upLog[i] # <<>>) => upLog[i][Len(upLog[i])].out # "expired"

\* C7 (amended): an ExpiredToken failure leaves attempt unchanged, causes no sleep,
\* is followed by one refresh and, once the refresh has returned its client,
\* by a new attempt with that client; a call returns False only when
\* `retries` other ClientErrors were met, and an attempt that succeeds makes
\* the call return True.
C7_ExpiryOutsideBudget ==
    \A i \in TaskIds :
        /\ RefreshRaised(i) =>
               /\ attempt[i] = CountOf(upLog[i], "error")
               /\ Len(sleeps[i]) = CountOf(upLog[i], "error")
               /\ client[i] = CountOf(upLog[i], "expired") - 1
        /\ pc[i] \in UploadingStates =>
            LET log == upLog[i]
                e == CountOf(log, "expired")
                f == CountOf(log, "error")
            IN /\ attempt[i] = f
               /\ Len(sleeps[i]) = IF pc[i] = "Sleeping" THEN f - 1 ELSE f
               /\ client[i] = IF pc[i] = "Refreshing" THEN e - 1 ELSE e
               /\ \A n \in 1..Len(log) :
                      log[n].client = CountOf(SubSeq(log, 1, n - 1), "expired")
               /\ pc[i] = "Refreshing" =>
                      log[Len(log)].out = "expired" /\ LoopContinues(attempt[i])
               /\ pc[i] = "Uploading" => f < retries
               /\ pc[i] = "UploadReturned" =>
                      /\ upResult[i] = "True" <=> log[Len(log)].out = "ok"
                      /\ upResult[i] = "False" <=> f = retries

C7_Witness ==
    /\ pc[1] = "UploadReturned"
    /\ upResult[1] = "True"
    /\ CountOf(upLog[1], "expired") >= 2
    /\ CountOf(upLog[1], "error") = retries - 1
    /\ retries >= 2

\* C8: a regular object whose bucket entry reports the digest computed locally
\* ends UpToDate, with no upload_file and no put_object call for its key.
C8_SkipWhenSameDigest ==
    \A i \in Listed :
        (probeRes[i].kind = "found" /\ Strip(probeRes[i].etag, Quote) = localMD5[i])
        => /\ pc[i] = "UpToDate"
           /\ calls[i] \cap {"upload_file", "put_object"} = {}
           /\ upLog[i] = <<>>
           /\ dest[KeyOf(i)].etag = probeRes[i].etag

C8_Witness ==
    \E i \in Listed :
        /\ pc[i] = "UpToDate"
        /\ probeRes[i].kind = "found"
        /\ mainPc = "done"

\* C9: a regular object with no bucket entry at probe time ends Uploaded, the
\* bucket's digest at its key being the digest of the downloaded content.
\* Stated for the runs in which upload_file raises nothing but ClientError.
C9_Original ==
    \A i \in Listed :
        (probeRes[i].kind = "absent" /\ pc[i] \in Terminal /\ fault[i] # "upload_exception")
        => /\ pc[i] = "Uploaded"
           /\ Strip(dest[KeyOf(i)].etag, Quote) = localMD5[i]

\* C9 (amended): a regular object with no bucket entry at probe time ends
\* Uploaded exactly when upload_file_with_retry returned True, and then the
\* bucket's digest at its key is that of the downloaded content from then on;
\* otherwise it ends Failed by exhaustion or by an exception of upload_file
\* or of refresh_credentials, the bucket still without an entry.
C9_UploadedIfRetryReturnsTrue ==
    \A i \in Listed :
        probeRes[i].kind = "absent" =>
            LET k == KeyOf(i)
            IN /\ pc[i] \in Terminal => (pc[i] = "Uploaded" <=> upResult[i] = "True")
               /\ pc[i] = "Uploaded" =>
                      /\ dest[k] # NoObj
                      /\ Strip(dest[k].etag, Quote) = localMD5[i]
                      /\ localMD5[i] = HexDigest(SrcBody(k))
               /\ pc[i] = "Failed" =>
                      /\ fault[i] \in {"exhausted", "upload_exception"}
                      /\ dest[k] = NoObj

C9_Witness ==
    \E i \in Listed :
        /\ probeRes[i].kind = "absent"
        /\ pc[i] = "Uploaded"
        /\ mainPc = "done"

\* C10: the worker of a key ending with "/" makes no get_object, checksum,
\* head_object or upload_file call and leaves a zero-byte object at the key.
\* Stated for the workers whose makedirs succeeded.
C10_Original ==
    \A i \in Listed :
        (EndsWithSlash(KeyOf(i)) /\ pc[i] \in Terminal /\ fault[i] # "makedirs")
        => /\ calls[i] \cap {"get_object", "calculate_md5", "head_object", "upload_file"} = {}
           /\ dest[KeyOf(i)] = S3Object(Empty)

\* C10 (amended): the worker of a key ending with "/" makes no get_object,
\* checksum, head_object or upload_file call and stages no file; it ends
\* MarkerCreated with a zero-byte object at exactly that key, or Failed
\* because makedirs or put_object raised.
C10_MarkerNoDownload ==
    \A i \in Listed :
        EndsWithSlash(KeyOf(i)) =>
            LET k == KeyOf(i)
            IN /\ calls[i] \subseteq {"put_object"}
               /\ files[k] = NoFile
               /\ localMD5[i] = <<>> /\ probeRes[i] = NotProbed /\ upLog[i] = <<>>
               /\ pc[i] \in Terminal => pc[i] \in {"MarkerCreated", "Failed"}
               /\ pc[i] = "MarkerCreated" =>
                      /\ dest[k] = S3Object(Empty)
                      /\ \A q \in Keys \ {k} : dest[q].body # Empty
               /\ pc[i] = "Failed" => fault[i] \in {"makedirs", "put_object"}

C10_Witness ==
    \E i \in Listed :
        /\ EndsWithSlash(KeyOf(i))
        /\ pc[i] = "MarkerCreated"
        /\ dest[KeyOf(i)].body = Empty

\* C12: once the batch has drained, every key of the listing that the bucket
\* holds has there the digest of its source content, whatever the outcomes
\* and whatever the bucket held before.
C12_Original ==
    mainPc \in PostBatch =>
        \A i \in Listed :
            dest[KeyOf(i)] # NoObj =>
                Strip(dest[KeyOf(i)].etag, Quote) = HexDigest(SrcBody(KeyOf(i)))

\* C12 (amended): once the batch has drained, every key whose worker ended
\* Uploaded, UpToDate or MarkerCreated has in the bucket the digest of its
\* source content (of no content, for a marker); a key whose worker Failed
\* keeps whatever the bucket held.
C12_DigestOfTransferred ==
    mainPc \in PostBatch =>
        \A i \in Listed :
            pc[i] \in {"Uploaded", "UpToDate", "MarkerCreated"} =>
                /\ dest[KeyOf(i)] # NoObj
                /\ Strip(dest[KeyOf(i)].etag, Quote) = HexDigest(SrcBody(KeyOf(i)))

C12_Witness ==
    /\ mainPc \in PostBatch
    /\ \E i \in Listed :
          /\ pc[i] = "Uploaded"
          /\ probeRes[i].kind = "found"
          /\ Strip(dest[KeyOf(i)].etag, Quote) = HexDigest(SrcBody(KeyOf(i)))
    /\ \E j \in Listed :
          /\ pc[j] = "Failed"
          /\ dest[KeyOf(j)] # NoObj
          /\ Strip(dest[KeyOf(j)].etag, Quote) # HexDigest(SrcBody(KeyOf(j)))

\* C13: once the source listing returned objects, main does not raise: it
\* reaches the count comparison whatever happened in the workers, a token
\* expiry answered by a refresh included.  Stated for the runs in which no
\* worker failed and the destination listing meets no failure of the store.
C13_Original ==
    (mainPc = "aborted" /\ objs # <<>> /\ \A i \in Listed : fault[i] = "none")
        => abortWhy = "list_dest"

\* C14: when the run has ended, every worker that failed on a download error,
\* a probe error other than 404 or upload exhaustion has an error log event
\* naming its key.
C14_Original ==
    mainPc = "done" =>
        \A i \in Listed :
            (pc[i] = "Failed" /\ fault[i] \in PermanentFaults) => errorLogged[i]

\* no transfer_object task was started, nothing was read or written
NothingStarted ==
    /\ submitted = 0
    /\ \A i \in TaskIds : pc[i] = "Unsubmitted" /\ calls[i] = {}
    /\ FilePaths = {}

\* C15: a run that ends on a missing bucket or on a listing failure of either
\* store has started no transfer.
C15_Original ==
    (mainPc = "aborted" /\ abortWhy \in {"bucket_missing", "list_source", "list_dest"})
        => NothingStarted

\* C15 (amended): a missing or unreachable bucket and a failure of the source
\* listing end the run before any transfer_object task is submitted, and with
\* a missing bucket no task ever starts; a failure of the destination listing
\* ends the run after every task of the batch has run to its end.
C15_SetupAbortsBeforeTransfers ==
    /\ ~bucketExists => NothingStarted
    /\ (mainPc = "aborted" /\ abortWhy \in {"bucket_missing", "bucket_access", "list_source"})
           => NothingStarted
    /\ (mainPc = "aborted" /\ abortWhy \in {"list_dest", "expired_token"})
           => /\ objs # <<>>
              /\ submitted = Len(objs)
              /\ Drained

C15_Witness ==
    /\ mainPc = "aborted"
    /\ abortWhy = "list_dest"
    /\ \E i \in Listed : pc[i] = "Uploaded"

\* C18: whenever main has returned, the staging root no longer exists.
C18_Original ==
    mainPc \in {"done", "returned_empty"} => ~tempExists

\* the faults that leave a staged file behind (lines 146, 161, 118)
LeakingFaults == {"checksum", "probe", "upload_exception"}

\* C19: no worker fails on its staging path because of what another worker
\* did below the staging root.  Stated for the runs in which no worker left
\* a staged file behind.
C19_Original ==
    (\A j \in Listed : fault[j] \notin LeakingFaults)
        => \A i \in Listed : fault[i] \notin {"makedirs", "staging"}

\* C20: a refresh replaces the client of the upload_file_with_retry call it
\* happens in and no other: every call starts with the start-up client, a
\* call holds one new client per expiry it met itself and whose refresh
\* returned, outside the call the
\* task is back on the start-up client, and main lists the bucket with the
\* start-up client, so that listing succeeds only while its token is valid.
C20_RefreshIsLocal ==
    /\ \A i \in TaskIds :
          /\ upLog[i] # <<>> => upLog[i][1].client = StartupClient
          /\ client[i] = CountOf(upLog[i], "expired")
                             - (IF pc[i] = "Refreshing" \/ RefreshRaised(i) THEN 1 ELSE 0)
          /\ (pc[i] \notin UploadingStates /\ fault[i] # "upload_exception")
                 => client[i] = StartupClient
    /\ mainPc \in {"compare", "done"} => ~startupExpired

C20_Witness ==
    /\ \E i, j \in Listed :
          /\ i # j
          /\ pc[i] = "Refreshing" /\ pc[j] = "Refreshing"
          /\ client[i] = StartupClient /\ client[j] = StartupClient

\* the store the listing function under way reads, in its order
ListedStore == IF lsKind = "swift" THEN Listing(swift) ELSE Listing(S3Keys)

\* C16: for every store content and every page size of 1 or more, chosen
\* anew for each page, both listing functions end and return every object of
\* the store once, in the store's order; an empty store gives the empty list.
C16_ListingComplete ==
    lsKind # "none" =>
        /\ Len(lsObjects) <= Len(ListedStore)
        /\ lsObjects = SubSeq(ListedStore, 1, Len(lsObjects))
        /\ lsRequests <= Len(ListedStore) + 1
        /\ lsPc = "returned" => lsObjects = ListedStore

C16_Witness ==
    /\ lsKind = "swift"
    /\ lsPc = "returned"
    /\ lsObjects = AllKeys
    /\ lsRequests = 3

\* C11: in a second run of main on the unchanged container, after a first
\* run that transferred every object, every object ends UpToDate and no
\* upload_file or put_object call is made.  Stated for the second runs in
\* which no call fails.
C11_Original ==
    (/\ run = 2
     /\ mainPc = "done"
     /\ \A i \in Listed :
           /\ firstOutcome[i] \in {"Uploaded", "UpToDate", "MarkerCreated"}
           /\ fault[i] = "none")
    => \A i \in Listed :
           /\ pc[i] = "UpToDate"
           /\ calls[i] \cap {"upload_file", "put_object"} = {}

\* C11 (amended): in the second run, the worker of a regular key that ended
\* Uploaded or UpToDate in the first run makes no upload_file call, leaves
\* the bucket's object as it is and ends UpToDate, unless its own staging,
\* download, checksum or probe fails; the worker of a marker key puts the
\* zero-byte object again and ends MarkerCreated.
C11_SecondRunSkips ==
    run = 2 =>
        \A i \in Listed :
            LET k == KeyOf(i)
            IN /\ (~EndsWithSlash(k) /\ firstOutcome[i] \in {"Uploaded", "UpToDate"}) =>
                      /\ "upload_file" \notin calls[i]
                      /\ pc[i] \notin UploadingStates \cup {"Uploaded"}
                      /\ dest[k] = S3Object(SrcBody(k))
                      /\ pc[i] \in Terminal =>
                             \/ pc[i] = "UpToDate"
                             \/ /\ pc[i] = "Failed"
                                /\ fault[i] \in {"makedirs", "staging", "download",
                                                 "checksum", "probe"}
               /\ (EndsWithSlash(k) /\ pc[i] \in Terminal /\ fault[i] = "none") =>
                      /\ pc[i] = "MarkerCreated"
                      /\ "put_object" \in calls[i]

C11_Witness ==
    /\ run = 2
    /\ mainPc = "done"
    /\ \E i \in Listed : firstOutcome[i] = "Uploaded" /\ pc[i] = "UpToDate"
    /\ \E j \in Listed : firstOutcome[j] = "MarkerCreated" /\ pc[j] = "MarkerCreated"

\* some call of upload_file_with_retry is answering an expired token
SomeRefreshing == \E i \in TaskIds : pc[i] = "Refreshing"

\* C17: under fair scheduling, with every call returning one of its results
\* (ExpiredToken included), every submitted task reaches a terminal state,
\* the batch drains and main reaches the destination listing.
C17_Original ==
    /\ \A i \in TaskIds : (pc[i] = "Pending") ~> (pc[i] \in Terminal)
    /\ (mainPc = "submitting") ~> (mainPc = "list_dest")

\* C17 (amended): under the same assumptions, unless calls of
\* upload_file_with_retry answer expired tokens again and again without end,
\* every submitted task reaches a terminal state, the batch drains and main
\* reaches the destination listing.
C17_TerminatesUnlessExpiryForever ==
    \/ []<>SomeRefreshing
    \/ /\ \A i \in TaskIds : (pc[i] = "Pending") ~> (pc[i] \in Terminal)
       /\ (mainPc = "submitting") ~> (mainPc = "list_dest")

C17_Witness ==
    /\ mainPc = "list_dest"
    /\ \E i \in Listed : pc[i] = "Uploaded" /\ startupExpired
    /\ \E j \in Listed : pc[j] = "Failed"

====
